---- MODULE Spec2Model ----
(***************************************************************************)
(* Model of main.py: the Task entity (construction, to_dict, from_dict)    *)
(* and the TaskManager store (load, save, add, delete, update, list)       *)
(* together with the persisted file tasks.json and the calendar date.      *)
(***************************************************************************)
EXTENDS Integers, Sequences, FiniteSets, TLC

\* ------------------------------------------------------------------ bounds
MaxDay == 2        \* the calendar runs over days 1..MaxDay
MaxFaults == 1     \* at most this many failing writes (SpecFault only)

\* ------------------------------------------------------------------ inputs
Ids == {"u1", "u2"}                    \* strings uuid.uuid4() can return
NONE == "<None>"                       \* Python's None for an Optional[str]
Titles == {"Buy milk"}
Descriptions == {"2%"}
PriorityInputs == {"high", "urgent"}   \* what the user types at the prompt
UpdateInputs ==
    { <<"title", "Renamed">>, <<"status", "urgent">>,
      <<"task_id", "u2">>,
      <<"created_at", "1999-12-31">>, <<"nonexistent_field", "x">> }
KwargsInputs ==
    { <<p>> : p \in UpdateInputs } \cup
    { <<>>, << <<"nonexistent_field", "x">>, <<"title", "Renamed">> >> }

\* ------------------------------------------------------------- dates, enums
\* datetime.strftime("%Y-%m-%d") of day number d
DateStr == << "2024-01-01", "2024-01-02", "2024-01-03", "2024-01-04",
              "2024-01-05", "2024-01-06" >>
strftime(d) == DateStr[d]

\* Enum classes: member name |-> value
Priority == [HIGH |-> "high", MEDIUM |-> "medium", LOW |-> "low"]
Status == [PENDING |-> "pending", COMPLETED |-> "completed"]
EnumValues(E) == { E[m] : m \in DOMAIN E }
\* Enum(value): the member with that value; ValueError when there is none
EnumHas(E, v) == \E m \in DOMAIN E : E[m] = v
EnumLookup(E, v) == CHOOSE m \in DOMAIN E : E[m] = v

\* ------------------------------------------------------------------- Task
\* Task.__init__; uuid is the value uuid.uuid4() returns, now is the day
Task_init(title, description, due_date, priority, status, task_id, uuid, now) ==
    [ task_id     |-> IF task_id \in {NONE, ""} THEN uuid ELSE task_id,
      title       |-> title,
      description |-> description,
      status      |-> status,
      priority    |-> priority,
      created_at  |-> strftime(now),
      due_date    |-> IF due_date \in {NONE, ""} THEN strftime(now + 1)
                      ELSE due_date ]

to_dict(t) ==
    [ task_id     |-> t.task_id,
      title       |-> t.title,
      description |-> t.description,
      status      |-> Status[t.status],
      priority    |-> Priority[t.priority],
      due_date    |-> t.due_date,
      created_at  |-> t.created_at ]

\* from_dict raises (KeyError / ValueError) unless this holds
from_dict_ok(data) ==
    /\ {"title", "description", "priority", "status", "task_id"} \subseteq DOMAIN data
    /\ EnumHas(Priority, data.priority)
    /\ EnumHas(Status, data.status)

from_dict(data, uuid, now) ==
    Task_init(data.title, data.description,
              IF "due_date" \in DOMAIN data THEN data.due_date ELSE NONE,
              EnumLookup(Priority, data.priority),
              EnumLookup(Status, data.status),
              data.task_id, uuid, now)

\* ------------------------------------------------- the dict self.tasks
\* A Python dict keeps insertion order: order is the key order, rec the values
EmptyDict == [order |-> <<>>, rec |-> <<>>]
Keys(d) == { d.order[i] : i \in 1..Len(d.order) }
\* variant: assigning to an existing key moves it to the end of the order
dict_set_move_to_end(d, k, v) ==
    [order |-> Append(SelectSeq(d.order, LAMBDA x : x # k), k),
     rec   |-> [x \in Keys(d) \cup {k} |-> IF x = k THEN v ELSE d.rec[x]]]
dict_set(d, k, v) ==
    IF k \in Keys(d)
    THEN [d EXCEPT !.rec = [x \in DOMAIN d.rec |-> IF x = k THEN v ELSE d.rec[x]]]
    ELSE [order |-> Append(d.order, k),
          rec   |-> [x \in Keys(d) \cup {k} |-> IF x = k THEN v ELSE d.rec[x]]]
dict_del(d, k) ==
    [order |-> SelectSeq(d.order, LAMBDA x : x # k),
     rec   |-> [x \in Keys(d) \ {k} |-> d.rec[x]]]
\* d.values()
Values(d) == [i \in 1..Len(d.order) |-> d.rec[d.order[i]]]

\* ------------------------------------------------------- tasks.json
\* file states: no file (os.path.exists is False), a truncated or partial
\* text (json.load raises), or a complete text with its members
Absent == [exists |-> FALSE, valid |-> FALSE, text |-> <<>>]
Corrupt == [exists |-> TRUE, valid |-> FALSE, text |-> <<>>]
Written(text) == [exists |-> TRUE, valid |-> TRUE, text |-> text]
\* variant: an incremental write of the last member only
json_dump_last_only(d) ==
    [i \in 1..(IF Len(d.order) = 0 THEN 0 ELSE 1) |->
        <<d.order[Len(d.order)], d.rec[d.order[Len(d.order)]]>>]
\* json.dump: the object's members in iteration order
json_dump(d) == [i \in 1..Len(d.order) |-> <<d.order[i], d.rec[d.order[i]]>>]
\* json.load: members inserted one by one into a new dict
RECURSIVE json_load_from(_, _)
json_load_from(text, d) ==
    IF text = <<>> THEN d
    ELSE json_load_from(Tail(text), dict_set(d, Head(text)[1], Head(text)[2]))
json_load(text) == json_load_from(text, EmptyDict)

\* TaskManager.load_tasks on a readable file
load_tasks(f) == IF f.exists THEN json_load(f.text) ELSE EmptyDict

\* ------------------------------------------------ TaskManager, in memory
add_task(d, t) == dict_set(d, t.task_id, to_dict(t))
delete_task(d, task_id) == dict_del(d, task_id)

\* variant: the membership test on the key is missing, the field is added
RECURSIVE update_record_adds_key(_, _)
update_record_adds_key(r, kwargs) ==
    IF kwargs = <<>> THEN r
    ELSE LET key == Head(kwargs)[1]
             value == Head(kwargs)[2]
         IN update_record_adds_key(
                [x \in DOMAIN r \cup {key} |-> IF x = key THEN value ELSE r[x]],
                Tail(kwargs))
RECURSIVE update_record(_, _)
update_record(r, kwargs) ==
    IF kwargs = <<>> THEN r
    ELSE LET key == Head(kwargs)[1]
             value == Head(kwargs)[2]
         IN update_record(IF key \in DOMAIN r
                          THEN [x \in DOMAIN r |-> IF x = key THEN value ELSE r[x]]
                          ELSE r,
                          Tail(kwargs))
\* variant: the changes are applied to every record of the store
update_task_all_records(d, task_id, kwargs) ==
    [d EXCEPT !.rec = [x \in DOMAIN d.rec |-> update_record(d.rec[x], kwargs)]]
update_task(d, task_id, kwargs) ==
    dict_set(d, task_id, update_record(d.rec[task_id], kwargs))

\* the rows list_tasks prints
list_tasks(d) ==
    [i \in 1..Len(d.order) |->
        LET t == d.rec[d.order[i]]
        IN <<t.task_id, t.title, t.status, t.priority, t.due_date>>]

\* ------------------------------------------------------------------ state
VARIABLES
    tasks,    \* TaskManager.tasks
    file,     \* tasks.json: Absent, Corrupt or Written(members)
    today,    \* day number datetime.now() falls on
    up,       \* a TaskManager has been constructed
    lastOp,   \* the last call and its arguments
    result,   \* how the last call ended
    wrote,    \* the last call reached save_tasks
    out,      \* the rows the last call printed
    faults,   \* failed writes so far
    task,     \* a Task object held by the caller
    rt        \* result of the last serialize / deserialize round trip

vars == <<tasks, file, today, up, lastOp, result, wrote, out, faults, task, rt>>

NoTask == <<>>
NoOp == [op |-> "none", id |-> "", kw |-> <<>>]
Op(o, i, k) == [op |-> o, id |-> i, kw |-> k]

Init ==
    /\ file = Absent
    /\ tasks = load_tasks(file)
    /\ today = 1
    /\ up = TRUE
    /\ lastOp = NoOp
    /\ result = "none"
    /\ wrote = FALSE
    /\ out = <<>>
    /\ faults = 0
    /\ task = NoTask
    /\ rt = NoTask

\* save_tasks: open(FILE_PATH, "w") and json.dump; fail says the write fails
save_tasks(fail) ==
    /\ wrote' = TRUE
    /\ IF fail
       THEN /\ faults < MaxFaults
            /\ faults' = faults + 1
            /\ file' \in {file, Corrupt}
            /\ result' = "PersistError"
       ELSE /\ faults' = faults
            /\ file' = Written(json_dump(tasks'))
            /\ result' = "ok"

\* menu choice 2: Task(title, description, priority=Priority(priority)), add_task
AddTask(title, description, priority, uuid, fail) ==
    /\ up
    /\ lastOp' = Op("add", uuid, <<>>)
    /\ out' = <<>>
    /\ IF EnumHas(Priority, priority)
       THEN /\ tasks' = add_task(tasks,
                   Task_init(title, description, NONE, EnumLookup(Priority, priority),
                             "PENDING", NONE, uuid, today))
            /\ save_tasks(fail)
       ELSE /\ ~fail
            /\ result' = "InvalidEnumValue"
            /\ wrote' = FALSE
            /\ UNCHANGED <<tasks, file, faults>>
    /\ UNCHANGED <<today, up, task, rt>>

\* variant: the file is rewritten even when the id is not found
DeleteTask_always_saves(task_id, fail) ==
    /\ up
    /\ lastOp' = Op("delete", task_id, <<>>)
    /\ out' = <<>>
    /\ tasks' = IF task_id \in Keys(tasks) THEN delete_task(tasks, task_id) ELSE tasks
    /\ save_tasks(fail)
    /\ UNCHANGED <<today, up, task, rt>>

DeleteTask(task_id, fail) ==
    /\ up
    /\ lastOp' = Op("delete", task_id, <<>>)
    /\ out' = <<>>
    /\ IF task_id \in Keys(tasks)
       THEN /\ tasks' = delete_task(tasks, task_id)
            /\ save_tasks(fail)
       ELSE /\ ~fail
            /\ result' = "NotFound"
            /\ wrote' = FALSE
            /\ UNCHANGED <<tasks, file, faults>>
    /\ UNCHANGED <<today, up, task, rt>>

UpdateTask(task_id, kwargs, fail) ==
    /\ up
    /\ lastOp' = Op("update", task_id, kwargs)
    /\ out' = <<>>
    /\ IF task_id \in Keys(tasks)
       THEN /\ tasks' = update_task(tasks, task_id, kwargs)
            /\ save_tasks(fail)
       ELSE /\ ~fail
            /\ result' = "NotFound"
            /\ wrote' = FALSE
            /\ UNCHANGED <<tasks, file, faults>>
    /\ UNCHANGED <<today, up, task, rt>>

ListTasks ==
    /\ up
    /\ lastOp' = Op("list", "", <<>>)
    /\ out' = list_tasks(tasks)
    /\ result' = IF Len(tasks.order) = 0 THEN "No tasks available." ELSE "listed"
    /\ wrote' = FALSE
    /\ UNCHANGED <<tasks, file, today, up, faults, task, rt>>

\* a new process: TaskManager() loads tasks.json
Restart ==
    /\ lastOp' = Op("restart", "", <<>>)
    /\ out' = <<>>
    /\ wrote' = FALSE
    /\ IF file = Corrupt
       THEN /\ up' = FALSE
            /\ tasks' = EmptyDict
            /\ result' = "PersistError"
       ELSE /\ up' = TRUE
            /\ tasks' = load_tasks(file)
            /\ result' = "ok"
    /\ UNCHANGED <<file, today, faults, task, rt>>

\* midnight passes
Tick ==
    /\ today < MaxDay
    /\ today' = today + 1
    /\ UNCHANGED <<tasks, file, up, lastOp, result, wrote, out, faults, task, rt>>

Next ==
    \/ \E t \in Titles, d \in Descriptions, p \in PriorityInputs, u \in Ids :
          AddTask(t, d, p, u, FALSE)
    \/ \E i \in Ids : DeleteTask(i, FALSE)
    \/ \E i \in Ids, kw \in KwargsInputs : UpdateTask(i, kw, FALSE)
    \/ ListTasks
    \/ Restart
    \/ Tick

Spec == Init /\ [][Next]_vars

\* the store under failing writes, within one day
NextFault ==
    \/ \E t \in Titles, d \in Descriptions, p \in PriorityInputs, u \in Ids, f \in BOOLEAN :
          AddTask(t, d, p, u, f)
    \/ \E i \in Ids, f \in BOOLEAN : DeleteTask(i, f)
    \/ \E i \in Ids, kw \in KwargsInputs, f \in BOOLEAN : UpdateTask(i, kw, f)
    \/ ListTasks
    \/ Restart

SpecFault == Init /\ [][NextFault]_vars

\* -------------------------------------------- Task round trip (pure part)
DueInputs == {NONE, "", "2024-03-01"}
TaskIdInputs == {NONE, "u1"}

\* Task(title, description, due_date, priority, status, task_id)
NewTask(title, description, due_date, priority, status, task_id, uuid) ==
    /\ task' = <<Task_init(title, description, due_date, priority, status,
                           task_id, uuid, today)>>
    /\ rt' = <<>>
    /\ UNCHANGED <<tasks, file, today, up, lastOp, result, wrote, out, faults>>

\* Task.from_dict(task.to_dict()).to_dict()
RoundTrip(uuid) ==
    /\ task # <<>>
    /\ LET s == to_dict(task[1])
       IN /\ from_dict_ok(s)
          /\ rt' = <<[orig |-> s, back |-> to_dict(from_dict(s, uuid, today))]>>
    /\ UNCHANGED <<tasks, file, today, up, lastOp, result, wrote, out, faults, task>>

NextRT ==
    \/ \E t \in Titles, d \in Descriptions, due \in DueInputs,
          p \in DOMAIN Priority, s \in DOMAIN Status,
          i \in TaskIdInputs, u \in Ids :
          NewTask(t, d, due, p, s, i, u)
    \/ \E u \in Ids : RoundTrip(u)
    \/ Tick

SpecRT == Init /\ [][NextRT]_vars

\* ------------------------------------------------------------ properties
FieldNames == {"task_id", "title", "description", "status", "priority",
               "due_date", "created_at"}
Mutating == {"add", "delete", "update"}
\* the step is a call of operation o (a Tick leaves lastOp alone)
Called(o) == lastOp'.op = o /\ today' = today
\* position of key k in the iteration order of d
Pos(d, k) == CHOOSE i \in 1..Len(d.order) : d.order[i] = k
UnknownOnly(kw) ==
    kw # <<>> /\ \A j \in 1..Len(kw) : kw[j][1] \notin FieldNames

\* C1: after every completed add_task, delete_task or update_task the parsed
\* file equals the whole in-memory mapping (same ids, same records, so a new
\* store loads an equal mapping), and one add on a fresh store without a file
\* leaves a file with exactly that one record keyed by its id.
C1_FileMirrorsMemory ==
    /\ []( (lastOp.op \in Mutating /\ result = "ok") =>
             /\ file.exists /\ file.valid
             /\ Len(file.text) = Len(tasks.order)
             /\ \A i \in 1..Len(tasks.order) :
                   file.text[i] = <<tasks.order[i], tasks.rec[tasks.order[i]]>>
             /\ load_tasks(file) = tasks )
    /\ [][ (Called("add") /\ result' = "ok" /\ ~file.exists /\ tasks = EmptyDict) =>
             /\ Len(file'.text) = 1
             /\ file'.text[1][1] = lastOp'.id
             /\ file'.text[1][2].task_id = lastOp'.id
             /\ file'.text[1][2] = tasks'.rec[lastOp'.id] ]_vars
C1_Witness ==
    /\ lastOp.op = "delete" /\ result = "ok"
    /\ Len(tasks.order) = 1 /\ Len(file.text) = 1

\* C2: the status of every stored record is pending or completed and its
\* priority is high, medium or low; an invalid value is never stored.
C2_EnumsAlwaysValid ==
    \A k \in Keys(tasks) :
        /\ tasks.rec[k].status \in EnumValues(Status)
        /\ tasks.rec[k].priority \in EnumValues(Priority)

\* C3: delete_task and update_task with an id that is not a key report
\* NotFound, leave the mapping (and the task count) unchanged and do not write.
C3_NotFoundIsNoOp ==
    [][ ((Called("delete") \/ Called("update")) /\ lastOp'.id \notin Keys(tasks)) =>
          /\ result' = "NotFound"
          /\ tasks' = tasks
          /\ Len(tasks'.order) = Len(tasks.order)
          /\ file' = file
          /\ ~wrote' ]_vars
C3_Witness ==
    /\ lastOp.op \in {"delete", "update"} /\ result = "NotFound"
    /\ lastOp.id \notin Keys(tasks) /\ Len(tasks.order) = 1

\* C4: update_task(id, title=v) on an existing id sets the title to v (the
\* listing shows v) and leaves unchanged the record's other fields (task_id and
\* created_at among them), the ids of the store and every other record.
C4_UpdateTitleFrame ==
    [][ \A v \in {"Renamed"} :
          (Called("update") /\ lastOp'.id \in Keys(tasks)
             /\ lastOp'.kw = << <<"title", v>> >>) =>
          LET i == lastOp'.id IN
          /\ tasks'.order = tasks.order
          /\ DOMAIN tasks'.rec = DOMAIN tasks.rec
          /\ DOMAIN tasks'.rec[i] = DOMAIN tasks.rec[i]
          /\ tasks'.rec[i].title = v
          /\ list_tasks(tasks')[Pos(tasks', i)][2] = v
          /\ \A f \in DOMAIN tasks.rec[i] \ {"title"} :
                tasks'.rec[i][f] = tasks.rec[i][f]
          /\ \A k \in Keys(tasks) \ {i} : tasks'.rec[k] = tasks.rec[k] ]_vars
C4_Witness ==
    /\ lastOp.op = "update" /\ lastOp.kw = << <<"title", "Renamed">> >>
    /\ result = "ok" /\ Len(tasks.order) = 2
    /\ tasks.rec[lastOp.id].title = "Renamed"
    /\ \E k \in Keys(tasks) : tasks.rec[k].title = "Buy milk"

\* C5: update_task on an existing id with a field name that is not one of the
\* seven keys succeeds, changes no field, adds no field (every stored record
\* keeps exactly the seven keys) and still rewrites the file.
C5_UnknownFieldIgnored ==
    /\ [](\A k \in Keys(tasks) : DOMAIN tasks.rec[k] = FieldNames)
    /\ [][ (Called("update") /\ lastOp'.id \in Keys(tasks)
             /\ UnknownOnly(lastOp'.kw)) =>
             /\ result' = "ok"
             /\ tasks' = tasks
             /\ wrote'
             /\ file'.exists /\ file'.valid
             /\ load_tasks(file') = tasks ]_vars
C5_Witness ==
    /\ lastOp.op = "update" /\ lastOp.kw = << <<"nonexistent_field", "x">> >>
    /\ lastOp.id \in Keys(tasks) /\ result = "ok" /\ wrote
    /\ tasks.rec[lastOp.id].title = "Renamed"

C7_CreatedAtWriteOnce ==
    [][ \A k \in Keys(tasks) \cap Keys(tasks') :
          (Called("update") \/
           ((Called("add") \/ Called("delete")) /\ lastOp'.id # k)) =>
          tasks'.rec[k].created_at = tasks.rec[k].created_at ]_vars

\* C8: Serialize(Deserialize(Serialize(task))) equals Serialize(task) on all
\* seven fields, whatever the date of the deserialization.
C8_RoundTrip ==
    rt # <<>> => \A f \in FieldNames : rt[1].back[f] = rt[1].orig[f]

\* C9: when the write fails during add_task, delete_task or update_task the
\* in-memory mapping after the operation equals the mapping before it.
C9_NoMutationOnFailedWrite ==
    [][ (lastOp'.op \in Mutating /\ faults' # faults) => tasks' = tasks ]_vars

\* C10: the listing is in insertion order: update_task keeps every position,
\* delete_task removes only the deleted record and keeps the order of the
\* rest, a newly added task is listed last, and a reload keeps the order.
Before(d, a, b) == Pos(d, a) < Pos(d, b)
====
